---- MODULE Spec2Model ----
(***************************************************************************)
(* A model of the goauto Pipeline (pipeline.go): the watch set and its     *)
(* recursive registration, the event batcher, the dispatch loop with its   *)
(* per-event rescan goroutines, and Stop.                                  *)
(*                                                                         *)
(* A path is a sequence of components; an absolute path starts with the    *)
(* component "/".  The filesystem is a set of existing directories drawn   *)
(* from a fixed universe, plus a fixed set of regular files.               *)
(***************************************************************************)
EXTENDS Integers, Sequences, FiniteSets, TLC

\* ------------------------------------------------------------------ bounds
\* Raw events the EventSource may generate in one run.
MaxEvents == 3
\* Watch / WatchRecursive calls the registering thread may make in one run.
MaxCalls == 2
\* Ticks of the batch timer that find an empty window, counted per run.
MaxIdleTicks == 1
\* Directory events (a tree appearing under a subscribed directory) per run.
MaxDirEvents == 2
\* Workflows registered with Add in one run.
MaxWorkflows == 2

NULL == "nil"

\* -------------------------------------------------------------- filesystem
GoSrc == <<"/", "gosrc">>

DirR == GoSrc \o <<"r">>
DirGit == DirR \o <<".git">>
DirObjects == DirGit \o <<"objects">>
DirSub == DirR \o <<"sub">>
DirNew == DirSub \o <<"new">>
DirNewK == DirNew \o <<"k">>
DirNewH == DirNew \o <<".h">>
DirP == GoSrc \o <<"p">>
DirPD == DirP \o <<"d">>
DirHR == GoSrc \o <<".hr">>
DirHRX == DirHR \o <<"x">>
DirSubH == DirSub \o <<".h">>
DirPH == DirP \o <<".h">>

FileA == DirR \o <<"a.go">>
FileB == DirP \o <<"b.go">>

\* Directories present when the pipeline is constructed.
StaticDirs == {<<"/">>, GoSrc, DirR, DirGit, DirObjects, DirSub, DirP, DirHR, DirHRX}
\* Directory trees that may appear while the pipeline exists (mkdir, mv).
DynRoots == {DirNew, DirPD}
\* Hidden directories that may appear under r/sub and under p.
HiddenDynRoots == {DirSubH, DirPH}
AllDirs == StaticDirs \cup {DirNew, DirNewK, DirNewH, DirPD, DirSubH, DirPH}
Files == {FileA, FileB}

\* Names in the byte order filepath.Walk visits them in.
LexNames == <<".git", ".h", ".hr", "/", "a.go", "b.go", "d", "gosrc", "k", "new",
              "objects", "p", "r", "sub", "x">>
HiddenNames == {".git", ".h", ".hr"}

IsAbs(p) == Len(p) > 0 /\ p[1] = "/"
Base(p) == p[Len(p)]
Parent(p) == SubSeq(p, 1, Len(p) - 1)
IsPrefix(a, b) == Len(a) <= Len(b) /\ SubSeq(b, 1, Len(a)) = a
Subtree(d) == {x \in AllDirs : IsPrefix(d, x)}

NameRank(n) == CHOOSE i \in 1..Len(LexNames) : LexNames[i] = n

\* The directories of S as a sequence in lexical order of their base names.
RECURSIVE SortByName(_)
SortByName(S) ==
    IF S = {} THEN <<>>
    ELSE LET m == CHOOSE x \in S : \A y \in S : NameRank(Base(x)) <= NameRank(Base(y))
         IN <<m>> \o SortByName(S \ {m})

\* The sub-directories of d that exist in ex, as filepath.Walk reads them.
ReadDirNames(d, ex) == SortByName({c \in ex : Len(c) = Len(d) + 1 /\ Parent(c) = d})

\* ------------------------------------------------- external helpers (util)
\* AbsPath: an absolute path is kept, a relative one is taken under
\* GOPATH/src; the result must exist.
AbsPath(p, ex) ==
    LET ap == IF IsAbs(p) THEN p ELSE GoSrc \o p
    IN IF ap \in ex \cup Files THEN [err |-> FALSE, path |-> ap]
       ELSE [err |-> TRUE, path |-> <<>>]

\* IsHidden classifies a path as hidden by its last component; a bare name is
\* the one-component path <<name>>.
IsHidden(p) == Len(p) > 0 /\ Base(p) \in HiddenNames

\* ----------------------------------------------------------- filepath.Rel
\* Length of the longest common prefix of two component sequences.
RECURSIVE CommonLen(_, _)
CommonLen(a, b) ==
    IF a = <<>> \/ b = <<>> \/ Head(a) # Head(b) THEN 0
    ELSE 1 + CommonLen(Tail(a), Tail(b))

Ups(n) == [i \in 1..n |-> ".."]

\* filepath.Rel(base, targ): fails only when one path is absolute and the
\* other is not, or when the part of base left after the common prefix starts
\* with ".."; otherwise climbs out of what is left of base and descends.
Rel(base, targ) ==
    LET c == CommonLen(base, targ)
        brest == SubSeq(base, c + 1, Len(base))
        trest == SubSeq(targ, c + 1, Len(targ))
    IN IF base = targ THEN [err |-> FALSE, rel |-> <<".">>]
       ELSE IF IsAbs(base) # IsAbs(targ) THEN [err |-> TRUE, rel |-> <<>>]
       ELSE IF brest # <<>> /\ Head(brest) = ".." THEN [err |-> TRUE, rel |-> <<>>]
       ELSE [err |-> FALSE, rel |-> Ups(Len(brest)) \o trest]

\* ------------------------------------------------------------------ events
OpCreate == "Create"
OpWrite == "Write"
OpRemove == "Remove"
OpRename == "Rename"
OpChmod == "Chmod"
\* An fsnotify.Op is a bit mask, held as the set of its flags.
dirOps == {OpCreate, OpRename}

Event(name, op) == [Name |-> name, Op |-> op]

\* --------------------------------------------------------------- workflows
\* A Workflower is opaque to the pipeline: an identity and a Match predicate.
WfMatches(id) ==
    CASE id = "w1" -> {FileA}
      [] id = "w2" -> {FileA, FileB}
      [] OTHER -> {}
WorkflowIds == {"w1", "w2"}
Match(wf, fpath, op) == fpath \in WfMatches(wf)

\* ------------------------------------------------------------------- state
\* Rescan goroutines are numbered in spawn order; Api is the thread that
\* registers watches.
Api == 0
Rescans == 1..MaxEvents
Threads == {Api} \cup Rescans

VARIABLES
    Watches,    \* p.Watches
    recDirs,    \* p.recDirs
    Workflows,  \* p.Workflows
    watcher,    \* p.watcher: NULL, "open" or "closed"
    subs,       \* the paths the fsnotify watcher is subscribed to
    done,       \* p.done: NULL, "open" or "closed"
    events,     \* p.events: NULL or "open"
    exists,     \* directories on disk
    osq,        \* raw events read by fsnotify, not yet taken by batchRun
    spc,        \* where Start() is
    batch,      \* the batch Start() is ranging over, and the position in it
    bpc,        \* where batchRun() is
    evs,        \* batchRun's accumulating window
    stpc,       \* where Stop() is
    pc,         \* per thread: where it is in Watch / WatchRecursive / recDir
    loc,        \* per thread: locals
    nspawn,     \* rescan goroutines started so far
    crashed,    \* the runtime aborted the process (fatal error)
    task,       \* a go task's Run: where it is, and the TaskInfo it works on
    hist        \* observations: received, emitted, runs, calls, ticks

vars == <<Watches, recDirs, Workflows, watcher, subs, done, events, exists, osq,
          spc, batch, bpc, evs, stpc, pc, loc, nspawn, crashed, task, hist>>

pipeVars == <<watcher, done, events, spc, batch, bpc, evs, stpc>>

NoLoc == [d |-> <<>>, snap |-> <<>>, ih |-> FALSE, stack |-> <<>>, rec |-> FALSE,
          root |-> <<>>, arg |-> <<>>, before |-> <<>>, ev |-> Event(<<>>, {})]
EmptyMap == [x \in {} |-> FALSE]

NoHist == [received |-> <<>>, emitted |-> <<>>, runs |-> <<>>, calls |-> <<>>,
           idleTicks |-> 0, generated |-> 0, ncalls |-> 0, tried |-> {},
           ticked |-> <<>>, watches0 |-> <<>>, roots0 |-> {}, werr |-> <<>>,
           stopBehindRun |-> FALSE]

\* No task is running.
NoTask == [pc |-> "none", kind |-> "", args |-> <<>>, Src |-> <<>>, Target |-> <<>>,
           Buf |-> <<>>, Tout |-> <<>>, err |-> NULL, cmdErr |-> FALSE, out |-> <<>>,
           argv |-> <<>>, buf0 |-> <<>>]

\* A pipeline that is not started: w watched, rd the recursive roots, wfs the
\* workflows, no live handle, no goroutine.
Configured(w, rd, wfs) ==
    /\ Watches = w
    /\ recDirs = rd
    /\ Workflows = wfs
    /\ watcher = NULL
    /\ subs = {}
    /\ done = NULL
    /\ events = NULL
    /\ exists = StaticDirs
    /\ osq = <<>>
    /\ spc = "configured"
    /\ batch = [evs |-> <<>>, i |-> 0, j |-> 0]
    /\ bpc = "none"
    /\ evs = <<>>
    /\ stpc = "idle"
    /\ pc = [t \in Threads |-> IF t = Api THEN "idle" ELSE "unborn"]
    /\ loc = [t \in Threads |-> NoLoc]
    /\ nspawn = 0
    /\ crashed = FALSE
    /\ task = NoTask
    /\ hist = [NoHist EXCEPT !.watches0 = w, !.roots0 = DOMAIN rd]

\* NewPipeline: nothing watched, no workflow, no live handle.
InitReg == Configured(<<>>, EmptyMap, <<>>)

\* Concatenation of a sequence of sequences.
RECURSIVE Flat(_)
Flat(ss) == IF ss = <<>> THEN <<>> ELSE Head(ss) \o Flat(Tail(ss))

\* ------------------------------------------- Watch, WatchRecursive, recDir
\* A duplicate check that never finds the path.
ContainsNever(seq, x) == FALSE

\* The range loop of Watch, lines 63-67: whether x is in the watch list.
Contains(seq, x) == \E i \in 1..Len(seq) : seq[i] = x

\* Returning nil instead of filepath.SkipDir: the hidden directory is left out
\* but the walk still descends into it.
SkipDirDescends(path, stack, ex) == ReadDirNames(path, ex) \o Tail(stack)

\* filepath.SkipDir, lines 90-92: the walk goes on after the directory, without
\* reading it.
SkipDir(path, stack, ex) == Tail(stack)

\* What a finished call of the registering thread returned, with the watch
\* list before and after it.
CallRecord(fn, arg, ih, d, err, before, after) ==
    [fn |-> fn, arg |-> arg, ih |-> ih, d |-> d, err |-> err, before |-> before,
     after |-> after]

\* Thread t leaves Watch. Inside WatchRecursive the walk goes on with the
\* children of the directory just visited; a plain Watch returns to its caller.
AfterWatch(t, w) ==
    IF loc[t].rec
    THEN /\ pc' = [pc EXCEPT ![t] = "walk"]
         /\ loc' = [loc EXCEPT ![t].stack =
                       ReadDirNames(Head(loc[t].stack), exists) \o Tail(loc[t].stack)]
         /\ hist' = hist
    ELSE /\ pc' = [pc EXCEPT ![t] = "idle"]
         /\ loc' = [loc EXCEPT ![t] = NoLoc]
         /\ hist' = [hist EXCEPT !.calls =
                       Append(@, CallRecord("Watch", loc[t].arg, FALSE, loc[t].d, FALSE,
                                            loc[t].before, w))]

\* Watch, lines 55-67, entered by the registering thread: resolve, then look
\* for the resolved path in p.Watches.
ApiWatch(watchDir) ==
    /\ ~crashed
    /\ pc[Api] = "idle"
    /\ hist.ncalls < MaxCalls
    /\ LET r == AbsPath(watchDir, exists)
       IN IF r.err
          THEN /\ hist' = [hist EXCEPT !.ncalls = @ + 1,
                              !.calls = Append(@, CallRecord("Watch", watchDir, FALSE, <<>>, TRUE,
                                                             Watches, Watches))]
               /\ UNCHANGED <<pc, loc>>
          ELSE IF Contains(Watches, r.path)
          THEN /\ hist' = [hist EXCEPT !.ncalls = @ + 1,
                              !.calls = Append(@, CallRecord("Watch", watchDir, FALSE, r.path, FALSE,
                                                             Watches, Watches))]
               /\ UNCHANGED <<pc, loc>>
          ELSE /\ hist' = [hist EXCEPT !.ncalls = @ + 1]
               /\ pc' = [pc EXCEPT ![Api] = "wAppend"]
               /\ loc' = [loc EXCEPT ![Api] =
                             [NoLoc EXCEPT !.d = r.path, !.arg = watchDir, !.before = Watches]]
    /\ UNCHANGED <<Watches, recDirs, Workflows, subs, exists, osq, nspawn, crashed>>
    /\ UNCHANGED pipeVars
    /\ UNCHANGED task

\* A WatchRecursive that records the root before it looks at the error.
RecordRootFirst(rd, r, ih) ==
    [x \in DOMAIN rd \cup {r.path} |-> IF x = r.path THEN ih ELSE rd[x]]

\* Lines 77-84: the map of recursive roots after the resolution r of the
\* argument; a failed resolution returns before the map is touched.
RecordRoot(rd, r, ih) ==
    IF r.err THEN rd
    ELSE [x \in DOMAIN rd \cup {r.path} |-> IF x = r.path THEN ih ELSE rd[x]]

\* WatchRecursive, lines 77-84: resolve, record the root's policy, start the
\* walk at the root.
ApiWatchRecursive(watchDir, ignoreHidden) ==
    /\ ~crashed
    /\ pc[Api] = "idle"
    /\ hist.ncalls < MaxCalls
    /\ LET r == AbsPath(watchDir, exists)
       IN IF r.err
          THEN /\ hist' = [hist EXCEPT !.ncalls = @ + 1,
                              !.calls = Append(@, CallRecord("WatchRecursive", watchDir,
                                                             ignoreHidden, <<>>, TRUE,
                                                             Watches, Watches))]
               /\ recDirs' = RecordRoot(recDirs, r, ignoreHidden)
               /\ UNCHANGED <<pc, loc>>
          ELSE /\ hist' = [hist EXCEPT !.ncalls = @ + 1]
               /\ recDirs' = RecordRoot(recDirs, r, ignoreHidden)
               /\ pc' = [pc EXCEPT ![Api] = "walk"]
               /\ loc' = [loc EXCEPT ![Api] =
                             [NoLoc EXCEPT !.d = r.path, !.arg = watchDir, !.before = Watches,
                                           !.root = r.path, !.ih = ignoreHidden,
                                           !.stack = <<r.path>>, !.rec = TRUE]]
    /\ UNCHANGED <<Watches, Workflows, subs, exists, osq, nspawn, crashed>>
    /\ UNCHANGED pipeVars
    /\ UNCHANGED task

\* One visit of filepath.Walk's callback, lines 85-96, with the entry of the
\* Watch it calls (lines 55-67); an empty stack ends WatchRecursive.
WalkStep(t) ==
    /\ ~crashed
    /\ pc[t] = "walk"
    /\ IF loc[t].stack = <<>>
       THEN /\ pc' = [pc EXCEPT ![t] = IF t = Api THEN "idle" ELSE "done"]
            /\ loc' = [loc EXCEPT ![t] = [NoLoc EXCEPT !.ev = loc[t].ev]]
            /\ hist' = IF t = Api
                       THEN [hist EXCEPT !.calls =
                               Append(@, CallRecord("WatchRecursive", loc[t].arg, loc[t].ih,
                                                    loc[t].root, FALSE, loc[t].before,
                                                    Watches))]
                       ELSE hist
       ELSE LET path == Head(loc[t].stack)
                r == AbsPath(path, exists)
            IN IF IsHidden(<<Base(path)>>) /\ loc[t].ih
               THEN \* filepath.SkipDir: the directory and its subtree are left out
                    /\ loc' = [loc EXCEPT ![t].stack = SkipDir(path, @, exists)]
                    /\ UNCHANGED <<pc, hist>>
               ELSE IF r.err \/ Contains(Watches, r.path)
               THEN /\ loc' = [loc EXCEPT ![t].stack = ReadDirNames(path, exists) \o Tail(@)]
                    /\ hist' = IF t = Api THEN hist
                               ELSE [hist EXCEPT !.tried = @ \cup {path}]
                    /\ UNCHANGED pc
               ELSE /\ loc' = [loc EXCEPT ![t].d = r.path]
                    /\ pc' = [pc EXCEPT ![t] = "wAppend"]
                    /\ hist' = IF t = Api THEN hist
                               ELSE [hist EXCEPT !.tried = @ \cup {path}]
    /\ UNCHANGED <<Watches, recDirs, Workflows, subs, exists, osq, nspawn, crashed>>
    /\ UNCHANGED pipeVars
    /\ UNCHANGED task

\* Line 68, first half: append reads the slice p.Watches.
WatchAppend(t) ==
    /\ ~crashed
    /\ pc[t] = "wAppend"
    /\ loc' = [loc EXCEPT ![t].snap = Watches]
    /\ pc' = [pc EXCEPT ![t] = "wStore"]
    /\ UNCHANGED <<Watches, recDirs, Workflows, subs, exists, osq, nspawn, crashed, hist>>
    /\ UNCHANGED pipeVars
    /\ UNCHANGED task

\* Line 68, second half, and lines 69-72: the appended slice is stored in
\* p.Watches and a live watcher is subscribed to the path.
WatchStore(t) ==
    /\ ~crashed
    /\ pc[t] = "wStore"
    /\ Watches' = Append(loc[t].snap, loc[t].d)
    /\ subs' = IF watcher = "open" THEN subs \cup {loc[t].d} ELSE subs
    /\ AfterWatch(t, Watches')
    /\ UNCHANGED <<recDirs, Workflows, exists, osq, nspawn, crashed>>
    /\ UNCHANGED pipeVars
    /\ UNCHANGED task

\* Lines 68-69 when Watch runs beside Start: p.Watches and p.watcher are plain
\* fields that both goroutines use without synchronisation (a data race). The
\* load of p.watcher at line 69 may be satisfied while the store of line 68 is
\* not yet visible to the other goroutine; pc keeps what the load returned.
WatchLoadEarly(t) ==
    /\ ~crashed
    /\ pc[t] = "wStore"
    /\ pc' = [pc EXCEPT ![t] = IF watcher = NULL THEN "wStoreNil" ELSE "wStoreLive"]
    /\ UNCHANGED <<Watches, recDirs, Workflows, subs, exists, osq, loc, nspawn, crashed, hist>>
    /\ UNCHANGED pipeVars
    /\ UNCHANGED task

\* The store of line 68 becomes visible after the early load; lines 70-72 act
\* on the value loaded.
WatchStoreLate(t) ==
    /\ ~crashed
    /\ pc[t] \in {"wStoreNil", "wStoreLive"}
    /\ Watches' = Append(loc[t].snap, loc[t].d)
    /\ subs' = IF pc[t] = "wStoreLive" /\ watcher = "open" THEN subs \cup {loc[t].d} ELSE subs
    /\ AfterWatch(t, Watches')
    /\ UNCHANGED <<recDirs, Workflows, exists, osq, nspawn, crashed>>
    /\ UNCHANGED pipeVars
    /\ UNCHANGED task

\* The recursive roots recDir's range loop can stop at for event e: the root's
\* policy does not skip a hidden e.Name and filepath.Rel returns no error.
Eligible(e) ==
    {dir \in DOMAIN recDirs :
        /\ ~(IsHidden(e.Name) /\ recDirs[dir])
        /\ ~Rel(dir, e.Name).err}

\* Whether recDir gets past its two early returns (lines 102-107) for e.
PassesDirChecks(e) ==
    /\ dirOps \cap e.Op = e.Op
    /\ e.Name \in exists

\* recDir, lines 101-119, up to the entry of the WatchRecursive it calls
\* (lines 77-84). The map is ranged over in an order the runtime picks.
RecDir(k) ==
    /\ ~crashed
    /\ pc[k] = "recDir"
    /\ LET e == loc[k].ev
       IN IF ~PassesDirChecks(e) \/ Eligible(e) = {}
          THEN /\ pc' = [pc EXCEPT ![k] = "done"]
               /\ UNCHANGED <<loc, recDirs>>
          ELSE \E dir \in Eligible(e) :
                 LET r == AbsPath(e.Name, exists)
                 IN /\ recDirs' = [x \in DOMAIN recDirs \cup {r.path} |->
                                      IF x = r.path THEN recDirs[dir] ELSE recDirs[x]]
                    /\ pc' = [pc EXCEPT ![k] = "walk"]
                    /\ loc' = [loc EXCEPT ![k] =
                                  [NoLoc EXCEPT !.ev = e, !.d = r.path, !.root = r.path,
                                                !.ih = recDirs[dir], !.stack = <<r.path>>,
                                                !.rec = TRUE]]
    /\ UNCHANGED <<Watches, Workflows, subs, exists, osq, nspawn, crashed, hist>>
    /\ UNCHANGED pipeVars
    /\ UNCHANGED task

\* Two rescan goroutines that are both about to use p.recDirs, one of them to
\* write it: the map is not guarded, and the runtime may stop the process with
\* "fatal error: concurrent map iteration and map write" / "concurrent map writes".
MapCrash(k, j) ==
    /\ ~crashed
    /\ k # j
    /\ pc[k] = "recDir" /\ pc[j] = "recDir"
    /\ PassesDirChecks(loc[k].ev) /\ Eligible(loc[k].ev) # {}
    /\ PassesDirChecks(loc[j].ev)
    /\ crashed' = TRUE
    /\ UNCHANGED <<Watches, recDirs, Workflows, subs, exists, osq, pc, loc, nspawn, hist>>
    /\ UNCHANGED pipeVars
    /\ UNCHANGED task

\* Add, lines 122-126.
Add(ws) ==
    /\ ~crashed
    /\ spc = "configured"
    /\ Len(Workflows) + Len(ws) <= MaxWorkflows
    /\ Workflows' = Workflows \o ws
    /\ UNCHANGED <<Watches, recDirs, subs, exists, osq, pc, loc, nspawn, crashed, hist>>
    /\ UNCHANGED pipeVars
    /\ UNCHANGED task

\* ------------------------------------------------------------ EventSource
\* A write to a file in a subscribed directory.
FileWrite(f) ==
    /\ ~crashed
    /\ watcher = "open"
    /\ Parent(f) \in subs
    /\ hist.generated < MaxEvents
    /\ osq' = Append(osq, Event(f, {OpWrite}))
    /\ hist' = [hist EXCEPT !.generated = @ + 1]
    /\ UNCHANGED <<Watches, recDirs, Workflows, subs, exists, pc, loc, nspawn, crashed>>
    /\ UNCHANGED pipeVars
    /\ UNCHANGED task

\* A directory tree appears, or is replaced by a new one of the same name (mkdir,
\* a tree moved in); a subscribed parent reports its top directory with op
\* Create or Rename.
MkTree(d, op) ==
    /\ ~crashed
    /\ Parent(d) \in exists
    /\ exists' = exists \cup Subtree(d)
    /\ IF watcher = "open" /\ Parent(d) \in subs /\ hist.generated < MaxDirEvents
       THEN /\ osq' = Append(osq, Event(d, {op}))
            /\ hist' = [hist EXCEPT !.generated = @ + 1]
       ELSE UNCHANGED <<osq, hist>>
    /\ UNCHANGED <<Watches, recDirs, Workflows, subs, pc, loc, nspawn, crashed>>
    /\ UNCHANGED pipeVars
    /\ UNCHANGED task

\* ------------------------------------------------------------------ Start
\* What Start writes to p.Werr when nothing is watched and when there is no
\* workflow, lines 165-171.
StartWarnings ==
    (IF Len(Watches) < 1 THEN <<"is not watching anything">> ELSE <<>>)
        \o (IF Len(Workflows) < 1 THEN <<"has no Workflows">> ELSE <<>>)

\* A Start that goes on after a failed fsnotify.NewWatcher.
StartSetupIgnoringError(err) ==
    [spc |-> "subscribe", watcher |-> "open", done |-> "open", events |-> "open",
     bpc |-> "select", werr |-> IF err THEN <<"NewWatcher error">> ELSE <<>>]

\* Lines 174-186. With an error from fsnotify.NewWatcher the error is written
\* to p.Werr and Start returns; else the watcher and the two channels are set
\* and batchRun is started.
StartSetup(err) ==
    IF err
    THEN [spc |-> "failed", watcher |-> watcher, done |-> done, events |-> events,
          bpc |-> bpc, werr |-> <<"NewWatcher error">>]
    ELSE [spc |-> "subscribe", watcher |-> "open", done |-> "open", events |-> "open",
          bpc |-> "select", werr |-> <<>>]

\* Start, lines 155-186: fsnotify.NewWatcher fails, or the watcher and the two
\* channels are made and batchRun is started.
StartOpen ==
    /\ ~crashed
    /\ spc = "configured"
    /\ \E err \in BOOLEAN :
          LET s == StartSetup(err)
          IN /\ spc' = s.spc
             /\ watcher' = s.watcher
             /\ done' = s.done
             /\ events' = s.events
             /\ bpc' = s.bpc
             /\ hist' = [hist EXCEPT !.werr = @ \o StartWarnings \o s.werr]
    /\ UNCHANGED <<Watches, recDirs, Workflows, subs, exists, osq, batch, evs, stpc, pc, loc,
                   nspawn, crashed>>
    /\ UNCHANGED task

\* Start, lines 189-194: every path of p.Watches is added to the watcher.
StartSubscribe ==
    /\ ~crashed
    /\ spc = "subscribe"
    /\ subs' = IF watcher = "open"
               THEN subs \cup {Watches[i] : i \in 1..Len(Watches)}
               ELSE subs
    /\ spc' = "recv"
    /\ UNCHANGED <<Watches, recDirs, Workflows, watcher, done, events, exists, osq, batch, bpc,
                   evs, stpc, pc, loc, nspawn, crashed, hist>>
    /\ UNCHANGED task

\* ---------------------------------------------------------------- batchRun
\* A window that grows at the front.
AccumulateFront(window, event) == <<event>> \o window

\* Line 138: the event joins the window.
Accumulate(window, event) == Append(window, event)

\* select case at line 137: one raw event is taken and appended.
BatchEvent ==
    /\ ~crashed
    /\ bpc = "select"
    /\ watcher = "open"
    /\ osq # <<>>
    /\ evs' = Accumulate(evs, Head(osq))
    /\ osq' = Tail(osq)
    /\ hist' = [hist EXCEPT !.received = Append(@, Head(osq))]
    /\ UNCHANGED <<Watches, recDirs, Workflows, watcher, subs, done, events, exists, spc,
                   batch, bpc, stpc, pc, loc, nspawn, crashed>>
    /\ UNCHANGED task

\* A tick that sends whatever the window holds.
TickAlwaysSends(window) == "send"

\* What the tick case does with the window, lines 140-143: nothing when it is
\* empty, else go and send it.
TickTarget(window) == IF Len(window) = 0 THEN "select" ELSE "send"

\* select case at line 139: the tick.
BatchTick ==
    /\ ~crashed
    /\ bpc = "select"
    /\ bpc' = TickTarget(evs)
    /\ IF bpc' = "select"
       THEN /\ hist.idleTicks < MaxIdleTicks
            /\ hist' = [hist EXCEPT !.idleTicks = @ + 1]
       ELSE hist' = [hist EXCEPT !.ticked = Append(@, evs)]
    /\ UNCHANGED <<Watches, recDirs, Workflows, watcher, subs, done, events, exists, osq, spc,
                   batch, evs, stpc, pc, loc, nspawn, crashed>>
    /\ UNCHANGED task

\* The window batchRun goes on with after it has sent one, line 144.
WindowAfterSend(window) == <<>>

\* Lines 143-144 meet line 199: the batch goes over the unbuffered channel to
\* the dispatch loop, and batchRun starts an empty window.
BatchSend ==
    /\ ~crashed
    /\ bpc = "send"
    /\ spc = "recv"
    /\ batch' = [evs |-> evs, i |-> 1, j |-> 0]
    /\ spc' = "spawn"
    /\ evs' = WindowAfterSend(evs)
    /\ bpc' = "select"
    /\ hist' = [hist EXCEPT !.emitted = Append(@, evs)]
    /\ UNCHANGED <<Watches, recDirs, Workflows, watcher, subs, done, events, exists, osq,
                   stpc, pc, loc, nspawn, crashed>>
    /\ UNCHANGED task

\* Line 149: batchRun has left its loop and closes p.done.
BatchExit ==
    /\ ~crashed
    /\ bpc = "close"
    /\ done' = "closed"
    /\ bpc' = "exited"
    /\ UNCHANGED <<Watches, recDirs, Workflows, watcher, subs, events, exists, osq, spc,
                   batch, evs, stpc, pc, loc, nspawn, crashed, hist>>
    /\ UNCHANGED task

\* ------------------------------------------------------------ dispatch loop
\* Line 201: go p.recDir(e) for the event at the batch position.
Spawn ==
    /\ ~crashed
    /\ spc = "spawn"
    /\ nspawn' = nspawn + 1
    /\ pc' = [pc EXCEPT ![nspawn + 1] = "recDir"]
    /\ loc' = [loc EXCEPT ![nspawn + 1] = [NoLoc EXCEPT !.ev = batch.evs[batch.i]]]
    /\ batch' = [batch EXCEPT !.j = 1]
    /\ spc' = "query"
    /\ UNCHANGED <<Watches, recDirs, Workflows, watcher, subs, done, events, exists, osq,
                   bpc, evs, stpc, crashed, hist>>
    /\ UNCHANGED task

\* The TaskInfo queryWorkflow builds at line 215.
TaskInfo(fpath) == [Src |-> fpath, Target |-> <<>>]

\* queryWorkflow, lines 213-217: the next workflow is matched and, on a match,
\* run; after the last one the range loop of Start goes to the next event, or
\* back to the receive.
Query ==
    /\ ~crashed
    /\ spc = "query"
    /\ LET e == batch.evs[batch.i]
       IN IF batch.j > Len(Workflows)
          THEN /\ IF batch.i < Len(batch.evs)
                  THEN /\ batch' = [batch EXCEPT !.i = @ + 1, !.j = 0]
                       /\ spc' = "spawn"
                  ELSE /\ batch' = [evs |-> <<>>, i |-> 0, j |-> 0]
                       /\ spc' = "recv"
               /\ hist' = hist
          ELSE IF Match(Workflows[batch.j], e.Name, e.Op)
          THEN /\ spc' = "run"
               /\ hist' = [hist EXCEPT !.runs =
                             Append(@, [wf |-> Workflows[batch.j], info |-> TaskInfo(e.Name),
                                        ev |-> Len(Flat(hist.emitted)) - Len(batch.evs) + batch.i,
                                        fin |-> FALSE, err |-> FALSE])]
               /\ batch' = batch
          ELSE /\ batch' = [batch EXCEPT !.j = @ + 1]
               /\ UNCHANGED <<spc, hist>>
    /\ UNCHANGED <<Watches, recDirs, Workflows, watcher, subs, done, events, exists, osq,
                   bpc, evs, stpc, pc, loc, nspawn, crashed>>
    /\ UNCHANGED task

\* A loop that stops at the first workflow that matched.
BreakAfterRun(j) == Len(Workflows) + 1

\* The range loop of queryWorkflow, line 213: the workflow after position j.
NextWorkflow(j) == j + 1

\* The workflow's Run returns; its error, if any, is dropped (line 215).
RunReturn ==
    /\ ~crashed
    /\ spc = "run"
    /\ batch' = [batch EXCEPT !.j = NextWorkflow(@)]
    /\ spc' = "query"
    /\ hist' = [hist EXCEPT !.runs[Len(hist.runs)].fin = TRUE]
    /\ UNCHANGED <<Watches, recDirs, Workflows, watcher, subs, done, events, exists, osq,
                   bpc, evs, stpc, pc, loc, nspawn, crashed>>
    /\ UNCHANGED task

\* A queryWorkflow that returns at the first Run error.
ReturnOnRunError(j) == Len(Workflows) + 1

\* Line 215: the value Run returns is not looked at, so after an error the
\* range loop goes on with the workflow after position j.
OnRunError(j) == NextWorkflow(j)

\* The workflow's Run returns a non-nil error.
RunError ==
    /\ ~crashed
    /\ spc = "run"
    /\ batch' = [batch EXCEPT !.j = OnRunError(@)]
    /\ spc' = "query"
    /\ hist' = [hist EXCEPT !.runs[Len(hist.runs)].fin = TRUE,
                            !.runs[Len(hist.runs)].err = TRUE]
    /\ UNCHANGED <<Watches, recDirs, Workflows, watcher, subs, done, events, exists, osq,
                   bpc, evs, stpc, pc, loc, nspawn, crashed>>
    /\ UNCHANGED task

\* The workflow's Run panics. Neither queryWorkflow nor Start recovers
\* (lines 197-218), so the panic unwinds the goroutine of Start and the runtime
\* ends the process.
RunPanic ==
    /\ ~crashed
    /\ spc = "run"
    /\ crashed' = TRUE
    /\ UNCHANGED <<Watches, recDirs, Workflows, subs, exists, osq, pc, loc, nspawn, hist>>
    /\ UNCHANGED pipeVars
    /\ UNCHANGED task

\* The workflow's Match panics at line 214, with the same effect.
MatchPanic ==
    /\ ~crashed
    /\ spc = "query"
    /\ batch.j <= Len(Workflows)
    /\ crashed' = TRUE
    /\ UNCHANGED <<Watches, recDirs, Workflows, subs, exists, osq, pc, loc, nspawn, hist>>
    /\ UNCHANGED pipeVars
    /\ UNCHANGED task

\* -------------------------------------------------------------------- Stop
\* A done case that does not leave the loop.
OnDoneStays == "select"

\* The done case of batchRun's select, lines 145-146: break outer.
OnDone == "close"

\* Line 222 meets the select case at line 145: the send on the unbuffered
\* p.done completes when batchRun takes it, and batchRun leaves its loop.
StopSignal ==
    /\ ~crashed
    /\ stpc = "idle"
    /\ done = "open"
    /\ bpc = "select"
    /\ stpc' = "close"
    /\ bpc' = OnDone
    /\ UNCHANGED <<Watches, recDirs, Workflows, watcher, subs, done, events, exists, osq, spc,
                   batch, evs, pc, loc, nspawn, crashed, hist>>
    /\ UNCHANGED task

\* Stop is called on a running pipeline, line 221, and reaches the send on
\* p.done; whether batchRun is at that moment blocked handing a batch to a
\* dispatch loop that is inside a Run is noted.
StopCall ==
    /\ ~crashed
    /\ stpc = "idle"
    /\ done = "open"
    /\ stpc' = "send"
    /\ hist' = [hist EXCEPT !.stopBehindRun = (bpc = "send" /\ spc = "run")]
    /\ UNCHANGED <<Watches, recDirs, Workflows, watcher, subs, done, events, exists, osq, spc,
                   batch, bpc, evs, pc, loc, nspawn, crashed>>
    /\ UNCHANGED task

\* Line 222 meets the select case at line 145: batchRun, back at its select,
\* takes the value Stop is blocked sending, and leaves its loop.
StopRendezvous ==
    /\ ~crashed
    /\ stpc = "send"
    /\ bpc = "select"
    /\ stpc' = "close"
    /\ bpc' = OnDone
    /\ UNCHANGED <<Watches, recDirs, Workflows, watcher, subs, done, events, exists, osq, spc,
                   batch, evs, pc, loc, nspawn, crashed, hist>>
    /\ UNCHANGED task

\* Line 223: the watcher is closed, which drops its subscriptions, and Stop
\* returns.
StopClose ==
    /\ ~crashed
    /\ stpc = "close"
    /\ watcher' = "closed"
    /\ subs' = {}
    /\ stpc' = "returned"
    /\ UNCHANGED <<Watches, recDirs, Workflows, done, events, exists, osq, spc, batch,
                   bpc, evs, pc, loc, nspawn, crashed, hist>>
    /\ UNCHANGED task

\* ---------------------------------------------------------------- go tasks
\* goPrjTask as built by NewGoTestTask, NewGoVetTask, NewGoBuildTask and
\* NewGoInstallTask, and goLintTask.
GoCmds == {"test", "vet", "build", "install"}
TaskKinds == GoCmds \cup {"lint"}
TaskArgs == {<<>>, <<"-v">>}

\* strings.Title of the go command.
Title(gocmd) ==
    CASE gocmd = "test" -> "Test"
      [] gocmd = "vet" -> "Vet"
      [] gocmd = "build" -> "Build"
      [] gocmd = "install" -> "Install"

\* GoRelSrcDir: the directory of a source file, relative to GOPATH/src.
GoRelSrcDir(src) == SubSeq(src, Len(GoSrc) + 1, Len(src) - 1)

\* Lines written to a sink or captured in the buffer are sequences of words.
OkLine == <<"ok">>
StaleLine == <<"stale">>
CmdOutputs == {<<>>, <<<<"x">>>>, <<<<"x">>, <<"y">>>>}

\* fmt's default format of a []string operand: the elements between brackets,
\* as one word of the line.
SliceWord(args) ==
    CASE args = <<>> -> "[]"
      [] args = <<"-v">> -> "[-v]"

\* The line Run prints first, lines 29 and 73; the lint task prints its args
\* slice as one operand.
Header(kind, args, src) ==
    IF kind = "lint"
    THEN <<"Go Lint", SliceWord(args), "...">> \o GoRelSrcDir(src)
    ELSE <<"Go", Title(kind), "...">> \o GoRelSrcDir(src)

\* The command line of exec.Command, lines 30-32 and 74-75.
Argv(kind, args, src) ==
    IF kind = "lint"
    THEN <<"golint">> \o args \o GoRelSrcDir(src)
    ELSE <<"go", kind>> \o args \o GoRelSrcDir(src)

\* A Run that returns what the command returned, whatever it printed.
CommandVerdict(kind, cmdErr, buf) == IF cmdErr THEN "exit" ELSE NULL

\* The error Run returns, lines 38-40 and 83-88: the command's error; for the
\* lint task also FAIL when the command succeeded and the buffer is not empty.
Verdict(kind, cmdErr, buf) ==
    IF cmdErr THEN "exit"
    ELSE IF kind = "lint" /\ Len(buf) > 0 THEN "FAIL"
    ELSE NULL

\* A Tasker's Run is called with a TaskInfo: Src is the path of the event, and
\* Target and Buf hold what an earlier task of the chain left.
TaskCall(kind, args, src, target, buf) ==
    /\ task.pc = "none"
    /\ task' = [NoTask EXCEPT !.pc = "called", !.kind = kind, !.args = args, !.Src = src,
                              !.Target = target, !.Buf = buf, !.buf0 = buf]
    /\ UNCHANGED <<Watches, recDirs, Workflows, watcher, subs, done, events, exists, osq,
                   spc, batch, bpc, evs, stpc, pc, loc, nspawn, crashed, hist>>

\* Lines 26-35 and 70-78: Target and Buf are set, the header is printed and
\* the command is prepared with the buffer as its standard output.
TaskBegin ==
    /\ task.pc = "called"
    /\ task' = [task EXCEPT !.pc = "exec",
                            !.Target = task.Src,
                            !.Buf = <<>>,
                            !.Tout = Append(@, Header(task.kind, task.args, task.Src)),
                            !.argv = Argv(task.kind, task.args, task.Src)]
    /\ UNCHANGED <<Watches, recDirs, Workflows, watcher, subs, done, events, exists, osq,
                   spc, batch, bpc, evs, stpc, pc, loc, nspawn, crashed, hist>>

\* cmd.Run(), lines 38 and 83: the command writes out to the buffer and ends
\* with or without an error.
TaskExec(out, fail) ==
    /\ task.pc = "exec"
    /\ task' = [task EXCEPT !.pc = "ran", !.Buf = @ \o out, !.out = out, !.cmdErr = fail]
    /\ UNCHANGED <<Watches, recDirs, Workflows, watcher, subs, done, events, exists, osq,
                   spc, batch, bpc, evs, stpc, pc, loc, nspawn, crashed, hist>>

\* Lines 38-42 and 83-89: Run settles what it returns and prints ok when that
\* is nil.
TaskReturn ==
    /\ task.pc = "ran"
    /\ LET err == Verdict(task.kind, task.cmdErr, task.Buf)
       IN task' = [task EXCEPT !.pc = "deferred",
                               !.err = err,
                               !.Tout = IF err = NULL THEN Append(@, OkLine) ELSE @]
    /\ UNCHANGED <<Watches, recDirs, Workflows, watcher, subs, done, events, exists, osq,
                   spc, batch, bpc, evs, stpc, pc, loc, nspawn, crashed, hist>>

\* The deferred function, lines 35-37 and 78-80: Buf.WriteTo(Tout) moves the
\* buffer to the sink; Run has returned.
TaskFlush ==
    /\ task.pc = "deferred"
    /\ task' = [task EXCEPT !.pc = "returned", !.Tout = @ \o task.Buf, !.Buf = <<>>]
    /\ UNCHANGED <<Watches, recDirs, Workflows, watcher, subs, done, events, exists, osq,
                   spc, batch, bpc, evs, stpc, pc, loc, nspawn, crashed, hist>>

\* ---------------------------------------------------------- specifications
\* Registration: one thread builds the watch set and the workflow list of a
\* pipeline that is not started.
ApiPaths == {DirR, <<"r">>, DirP, DirHR, <<"nope">>}
AddArgs == {<<"w1">>, <<"w2">>, <<"w1", "w2">>}

NextReg ==
    \/ \E path \in ApiPaths : ApiWatch(path)
    \/ \E path \in ApiPaths, ih \in BOOLEAN : ApiWatchRecursive(path, ih)
    \/ WalkStep(Api)
    \/ WatchAppend(Api)
    \/ WatchStore(Api)
    \/ \E ws \in AddArgs : Add(ws)

SpecReg == InitReg /\ [][NextReg]_vars

\* The watch list WatchRecursive(r, IncludeHidden) followed by Watch(p) leaves.
WatchesRP == <<DirR, DirGit, DirObjects, DirSub, DirP>>

\* The running pipeline, fed with file writes: configured by
\* WatchRecursive(r, IncludeHidden), Watch(p) and Add(w1, w2), then started and
\* stopped. Every rescan returns at its first check, the events being writes.
Init == Configured(WatchesRP, (DirR :> FALSE), <<"w1", "w2">>)

Next ==
    \/ \E f \in Files : FileWrite(f)
    \/ StartOpen
    \/ StartSubscribe
    \/ BatchEvent
    \/ BatchTick
    \/ BatchSend
    \/ BatchExit
    \/ Spawn
    \/ \E k \in Rescans : RecDir(k)
    \/ Query
    \/ RunReturn
    \/ StopSignal
    \/ StopClose

Spec == Init /\ [][Next]_vars

\* The same, with every step of the program scheduled fairly; the filesystem
\* and the caller of Stop are free.
FairSpec ==
    /\ Spec
    /\ WF_vars(StartSubscribe)
    /\ WF_vars(BatchEvent)
    /\ WF_vars(BatchTick)
    /\ WF_vars(BatchSend)
    /\ WF_vars(BatchExit)
    /\ WF_vars(Spawn)
    /\ WF_vars(\E k \in Rescans : RecDir(k))
    /\ WF_vars(Query)
    /\ WF_vars(RunReturn)
    /\ WF_vars(StopClose)

\* The running pipeline, fed with directories appearing under r/sub and under
\* p: configured by WatchRecursive(r, IncludeHidden) and either Watch(p) or
\* WatchRecursive(p, IgnoreHidden), without workflows, and never stopped.
InitRescan ==
    \E rd \in {(DirR :> FALSE), (DirR :> FALSE) @@ (DirP :> TRUE)} :
        Configured(WatchesRP, rd, <<>>)

NextRescan ==
    \/ \E d \in DynRoots, op \in dirOps : MkTree(d, op)
    \/ StartOpen
    \/ StartSubscribe
    \/ BatchEvent
    \/ BatchTick
    \/ BatchSend
    \/ Spawn
    \/ Query
    \/ \E k \in Rescans : RecDir(k)
    \/ \E k \in Rescans, j \in Rescans : MapCrash(k, j)
    \/ \E k \in Rescans : WalkStep(k)
    \/ \E k \in Rescans : WatchAppend(k)
    \/ \E k \in Rescans : WatchStore(k)

SpecRescan == InitRescan /\ [][NextRescan]_vars

\* The running pipeline, fed with hidden directories appearing under r/sub and
\* under p: r and p are both recursive roots, each with either policy.
RootPolicies == {(DirR :> a) @@ (DirP :> b) : a \in BOOLEAN, b \in BOOLEAN}

InitHidden == \E rd \in RootPolicies : Configured(WatchesRP, rd, <<>>)

NextHidden ==
    \/ \E d \in HiddenDynRoots, op \in dirOps : MkTree(d, op)
    \/ StartOpen
    \/ StartSubscribe
    \/ BatchEvent
    \/ BatchTick
    \/ BatchSend
    \/ Spawn
    \/ Query
    \/ \E k \in Rescans : RecDir(k)
    \/ \E k \in Rescans, j \in Rescans : MapCrash(k, j)
    \/ \E k \in Rescans : WalkStep(k)
    \/ \E k \in Rescans : WatchAppend(k)
    \/ \E k \in Rescans : WatchStore(k)

SpecHidden == InitHidden /\ [][NextHidden]_vars

\* Registration beside Start: one goroutine calls Watch / WatchRecursive on a
\* new pipeline while another runs Start up to its dispatch loop.
DynPaths == {DirR, DirP, <<"nope">>}

NextDyn ==
    \/ \E path \in DynPaths : ApiWatch(path)
    \/ \E path \in DynPaths, ih \in BOOLEAN : ApiWatchRecursive(path, ih)
    \/ WalkStep(Api)
    \/ WatchAppend(Api)
    \/ WatchStore(Api)
    \/ WatchLoadEarly(Api)
    \/ WatchStoreLate(Api)
    \/ StartOpen
    \/ StartSubscribe

SpecDyn == InitReg /\ [][NextDyn]_vars

\* The running pipeline, never stopped, with workflows whose Run may return an
\* error.
NextErr ==
    \/ \E f \in Files : FileWrite(f)
    \/ StartOpen
    \/ StartSubscribe
    \/ BatchEvent
    \/ BatchTick
    \/ BatchSend
    \/ Spawn
    \/ \E k \in Rescans : RecDir(k)
    \/ Query
    \/ RunReturn
    \/ RunError

SpecErr == Init /\ [][NextErr]_vars

\* The running pipeline with workflows whose Match or Run may panic.
NextPanic ==
    \/ NextErr
    \/ RunPanic
    \/ MatchPanic

SpecPanic == Init /\ [][NextPanic]_vars

\* The running pipeline, fed with writes to r/a.go (which both workflows
\* match), with the call of Stop and the hand-over of its signal as two steps.
NextStop ==
    \/ FileWrite(FileA)
    \/ StartOpen
    \/ StartSubscribe
    \/ BatchEvent
    \/ BatchTick
    \/ BatchSend
    \/ BatchExit
    \/ Spawn
    \/ \E k \in Rescans : RecDir(k)
    \/ Query
    \/ RunReturn
    \/ StopCall
    \/ StopRendezvous
    \/ StopClose

SpecStop == Init /\ [][NextStop]_vars

\* Every goroutine that can run does run, every Run returns, and the select
\* of batchRun, which picks among its ready cases at random, does not pass
\* over a ready done case for ever. The filesystem and the caller of Stop are
\* free.
FairStop ==
    /\ SpecStop
    /\ WF_vars(StartSubscribe)
    /\ WF_vars(BatchEvent)
    /\ WF_vars(BatchTick)
    /\ WF_vars(BatchSend)
    /\ WF_vars(BatchExit)
    /\ WF_vars(Spawn)
    /\ WF_vars(\E k \in Rescans : RecDir(k))
    /\ WF_vars(Query)
    /\ WF_vars(RunReturn)
    /\ SF_vars(StopRendezvous)
    /\ WF_vars(StopClose)

\* One Run of a go task, on any TaskInfo a chain can hand it.
NextTask ==
    \/ \E kind \in TaskKinds, args \in TaskArgs, src \in Files, target \in {<<>>, FileB},
          buf \in {<<>>, <<StaleLine>>} : TaskCall(kind, args, src, target, buf)
    \/ TaskBegin
    \/ \E out \in CmdOutputs, fail \in BOOLEAN : TaskExec(out, fail)
    \/ TaskReturn
    \/ TaskFlush

SpecTask == InitReg /\ [][NextTask]_vars

\* ------------------------------------------------------------------ claims
Range(seq) == {seq[i] : i \in 1..Len(seq)}
Count(seq, x) == Cardinality({i \in 1..Len(seq) : seq[i] = x})
NoDup(seq) == \A i, j \in 1..Len(seq) : seq[i] = seq[j] => i = j

\* Every rescan goroutine started so far has returned, and the process lives.
AllRescansDone ==
    /\ ~crashed
    /\ nspawn > 0
    /\ \A k \in Rescans : pc[k] \in {"unborn", "done"}

\* C1: once all concurrent rescans have finished, every directory a rescan
\* tried to add is in Watches and no path is in Watches twice.
RescansKeepWatchSet ==
    AllRescansDone => (hist.tried \subseteq Range(Watches) /\ NoDup(Watches))

\* C2: once Stop has returned, the dispatch loop eventually ends and Start
\* returns to its caller.
StartReturnsAfterStop == (stpc = "returned") ~> (spc = "returned")

\* C3: from the stop signal on, and so after Stop has returned, no batch is
\* emitted any more, whatever the window held and whatever events still come.
NoBatchAfterStop == [][stpc # "idle" => hist.emitted' = hist.emitted]_vars

\* Stop has returned with a partial window and with raw events still pending.
StoppedWithPartialWindow == stpc = "returned" /\ evs # <<>> /\ osq # <<>>

\* C4: the batches emitted so far, in emission order, followed by the window
\* being accumulated, are the raw events received, in arrival order; each batch
\* is the window as the tick that emitted it found it.
BatchesPreserveOrder ==
    /\ IsPrefix(Flat(hist.emitted), hist.received)
    /\ bpc \in {"select", "send"} => Flat(hist.emitted) \o evs = hist.received
    /\ IsPrefix(hist.emitted, hist.ticked)
    /\ bpc = "send" => evs = hist.ticked[Len(hist.ticked)]

\* The batch <<a.go, b.go>> was emitted as one, and a later event is being
\* accumulated in the next window.
BatchThenWindow ==
    /\ hist.emitted = <<<<Event(FileA, {OpWrite}), Event(FileB, {OpWrite})>>>>
    /\ evs = <<Event(FileA, {OpWrite})>>

\* C5: no emitted batch is empty, a tick sends nothing when the window is
\* empty, and ticks without raw events yield no batch.
NoEmptyBatch ==
    /\ \A i \in 1..Len(hist.emitted) : hist.emitted[i] # <<>>
    /\ bpc = "send" => evs # <<>>
    /\ hist.received = <<>> => hist.emitted = <<>>

\* Ticks went by and found the window empty, and nothing has been emitted.
IdleTicksEmitNothing ==
    /\ hist.idleTicks = MaxIdleTicks
    /\ bpc = "select"
    /\ hist.emitted = <<>>

\* The Run calls event number n (path fpath, operation op) leads to, over the
\* workflows wfs in their order.
RECURSIVE RunsOf(_, _, _, _)
RunsOf(n, fpath, op, wfs) ==
    IF wfs = <<>> THEN <<>>
    ELSE (IF Match(Head(wfs), fpath, op)
          THEN <<[wf |-> Head(wfs), ev |-> n, src |-> fpath]>>
          ELSE <<>>) \o RunsOf(n, fpath, op, Tail(wfs))

\* The Run calls of the events numbered from..to of the sequence all.
RECURSIVE RunsOfEvents(_, _, _)
RunsOfEvents(all, from, to) ==
    IF from > to THEN <<>>
    ELSE RunsOf(from, all[from].Name, all[from].Op, Workflows)
            \o RunsOfEvents(all, from + 1, to)

\* What the dispatch loop must have run so far: everything for the events it
\* is done with, and for the event it is at, the workflows it has passed.
ExpectedRuns ==
    LET all == Flat(hist.emitted)
        cur == Len(all) - Len(batch.evs) + batch.i
        passed == CASE spc = "run" -> batch.j
                    [] spc = "query" -> batch.j - 1
                    [] OTHER -> 0
    IN IF batch.i = 0 THEN RunsOfEvents(all, 1, Len(all))
       ELSE RunsOfEvents(all, 1, cur - 1)
                \o RunsOf(cur, all[cur].Name, all[cur].Op, SubSeq(Workflows, 1, passed))

RunCalls == [i \in 1..Len(hist.runs) |->
                [wf |-> hist.runs[i].wf, ev |-> hist.runs[i].ev,
                 src |-> hist.runs[i].info.Src]]

\* C6: the Run calls made are exactly the matching (event, workflow) pairs, by
\* event position and then registration order, each with a TaskInfo whose Src
\* is the event's path; a Run has returned before anything else is matched or
\* run.
DispatchInOrder ==
    /\ RunCalls = ExpectedRuns
    /\ \A i \in 1..Len(hist.runs) :
          hist.runs[i].fin <=> (i < Len(hist.runs) \/ spc # "run")

\* A batch with a.go then b.go is dispatched: w1 ran once, w2 twice.
FanOutDone ==
    /\ spc = "recv"
    /\ hist.emitted = <<<<Event(FileA, {OpWrite}), Event(FileB, {OpWrite})>>>>
    /\ RunCalls = <<[wf |-> "w1", ev |-> 1, src |-> FileA],
                    [wf |-> "w2", ev |-> 1, src |-> FileA],
                    [wf |-> "w2", ev |-> 2, src |-> FileB]>>

\* The finished Watch calls whose argument resolves.
ResolvedWatchCalls ==
    {i \in 1..Len(hist.calls) :
        hist.calls[i].fn = "Watch" /\ ~AbsPath(hist.calls[i].arg, exists).err}

\* C7: a Watch whose path resolves to a directory already in Watches returns
\* the resolved path, no error, and leaves Watches as it was; after a Watch the
\* resolved directory has exactly one entry.
WatchIdempotent ==
    \A i \in ResolvedWatchCalls :
        LET c == hist.calls[i]
            d == AbsPath(c.arg, exists).path
        IN /\ ~c.err
           /\ c.d = d
           /\ Contains(c.before, d) => c.after = c.before
           /\ Count(Watches, d) = 1

\* Watch has returned twice, for two different arguments that resolve to the
\* same directory.
WatchedTwice ==
    \E i, j \in ResolvedWatchCalls :
        /\ i < j
        /\ hist.calls[i].arg # hist.calls[j].arg
        /\ hist.calls[i].d = hist.calls[j].d

\* The directories of root's tree no hidden name leads to, below the root.
Unhidden(root) ==
    {x \in Subtree(root) \cap exists :
        \A n \in (Len(root) + 1)..Len(x) : x[n] \notin HiddenNames}

\* The finished WatchRecursive calls that ignore hidden directories.
IgnoringCalls ==
    {i \in 1..Len(hist.calls) :
        /\ hist.calls[i].fn = "WatchRecursive"
        /\ ~hist.calls[i].err
        /\ hist.calls[i].ih}

AddedBy(c) == Range(c.after) \ Range(c.before)

\* C8 as stated: WatchRecursive(root, ignoreHidden=true) leaves in Watches the
\* root and every descendant reached through non-hidden names, and adds no
\* hidden directory and nothing under one.
HiddenExclusionAnyRoot ==
    \A i \in IgnoringCalls :
        LET c == hist.calls[i]
        IN /\ Unhidden(c.d) \subseteq Range(c.after)
           /\ \A x \in AddedBy(c) :
                 \A n \in Len(c.d)..Len(x) : x[n] \notin HiddenNames

\* C8, amended: for a root whose own name is not hidden, the root and every
\* descendant reached through non-hidden names are in Watches and nothing else
\* is added; for a root whose own name is hidden, nothing is added.
HiddenExclusion ==
    \A i \in IgnoringCalls :
        LET c == hist.calls[i]
        IN IF IsHidden(<<Base(c.d)>>)
           THEN c.after = c.before
           ELSE /\ Unhidden(c.d) \subseteq Range(c.after)
                /\ AddedBy(c) \subseteq Unhidden(c.d)

\* WatchRecursive(r, IgnoreHidden) has returned on an empty watch list: r and
\* r/sub are watched, r/.git and r/.git/objects are not.
IgnoredGit ==
    \E i \in IgnoringCalls :
        /\ hist.calls[i].d = DirR
        /\ hist.calls[i].before = <<>>
        /\ hist.calls[i].after = <<DirR, DirSub>>

\* The directories of new's tree that the policy of the root r, which
\* contains it, lets in.
WantedUnderNew ==
    IF recDirs[DirR] THEN Unhidden(DirNew) ELSE Subtree(DirNew) \cap exists

\* C9: once the rescan for an event on the directory r/sub/new has finished
\* (with every other rescan), new and its subtree, under the policy of the
\* root r, are in Watches and subscribed.
RescanAddsSubtree ==
    (AllRescansDone /\ \E k \in Rescans : pc[k] = "done" /\ loc[k].ev.Name = DirNew)
        => \A x \in WantedUnderNew : Contains(Watches, x) /\ x \in subs

UnderInitialRoot(x) == \E dir \in hist.roots0 : IsPrefix(dir, x)

\* C10: a rescan adds only directories that lie under a registered recursive
\* root; an event for any other directory leaves Watches, the recursive roots
\* and the subscriptions as they were.
RescanOnlyUnderRoots ==
    /\ \A x \in Range(Watches) : Contains(hist.watches0, x) \/ UnderInitialRoot(x)
    /\ \A x \in DOMAIN recDirs : x \in hist.roots0 \/ UnderInitialRoot(x)
    /\ \A x \in subs : Contains(hist.watches0, x) \/ UnderInitialRoot(x)

\* The initial recursive roots that contain x and take hidden directories in.
AdmittingRoots(x) ==
    {dir \in hist.roots0 : IsPrefix(dir, x) /\ ~recDirs[dir]}

\* C11: a hidden directory reported by a create/rename event gets into the
\* watch set (recursive roots, Watches, subscriptions) only through a root that
\* contains it and has ignoreHidden=false; when every root containing it has
\* ignoreHidden=true the watch set stays as it was.
HiddenRescanPolicy ==
    \A x \in HiddenDynRoots :
        (x \in DOMAIN recDirs \/ Contains(Watches, x) \/ x \in subs)
            => AdmittingRoots(x) # {}

\* C12: while the pipeline runs, Start being past its subscription loop, and no
\* Watch / WatchRecursive call is in progress, every path in Watches is
\* subscribed on the live watcher.
DynamicRegistration ==
    (spc = "recv" /\ watcher = "open" /\ pc[Api] = "idle")
        => \A i \in 1..Len(Watches) : Watches[i] \in subs

\* A step of the dispatch loop inside a batch.
DispatchStep == Spawn \/ Query \/ RunReturn \/ RunError

\* C13: a Run that returns an error aborts nothing. The Run calls made stay
\* exactly the matching (event, workflow) pairs in order, so the workflows
\* after the failed one and the later events of the batch are dispatched; the
\* loop can always take its next step inside a batch, and takes the next batch
\* when it is back at the receive.
RunErrorKeepsDispatch ==
    /\ RunCalls = ExpectedRuns
    /\ spc \in {"spawn", "query", "run"} => ENABLED DispatchStep
    /\ (spc = "recv" /\ bpc = "send") => ENABLED BatchSend

\* The first Run (w1 on a.go) returned an error; w2 then ran on a.go and on the
\* next event of the batch, and a Run was made for the batch after it.
RunErrorThenRest ==
    /\ Len(hist.emitted) = 2
    /\ Len(hist.emitted[1]) = 2
    /\ Len(hist.runs) >= 4
    /\ hist.runs[1].err
    /\ hist.runs[2].ev = 1 /\ hist.runs[2].fin
    /\ hist.runs[3].ev = 2 /\ hist.runs[3].fin
    /\ hist.runs[4].ev = 3

\* C14: a workflow whose Match or Run panics does not end the dispatch loop:
\* inside a batch the loop can always take its next step.
PanicKeepsDispatch ==
    spc \in {"spawn", "query", "run"} => ENABLED DispatchStep

\* The call of the registering thread that returned last.
LastCall(h) == h.calls[Len(h.calls)]

\* C15: a Watch or WatchRecursive whose path does not resolve returns the
\* error, and the step leaves Watches, the recursive roots, the subscriptions
\* and the whole state of the running pipeline (watcher, channels, Start,
\* batchRun) as they were.
ResolveFailureMutatesNothing ==
    [][(/\ Len(hist'.calls) = Len(hist.calls) + 1
        /\ AbsPath(LastCall(hist').arg, exists).err)
          => /\ LastCall(hist').err
             /\ Watches' = Watches
             /\ recDirs' = recDirs
             /\ subs' = subs
             /\ UNCHANGED pipeVars
             /\ crashed' = crashed]_vars

\* WatchRecursive(r) returned, then a call with a path that does not resolve
\* returned an error; the pipeline is running with r's tree subscribed.
FailedCallOnRunning ==
    /\ Len(hist.calls) = 2
    /\ hist.calls[1].fn = "WatchRecursive" /\ ~hist.calls[1].err
    /\ hist.calls[2].err
    /\ spc = "recv" /\ watcher = "open"
    /\ recDirs # EmptyMap
    /\ Watches # <<>>
    /\ \A i \in 1..Len(Watches) : Watches[i] \in subs

\* C16: once rescans have been spawned, and whatever they have done or not done
\* yet, the dispatch loop can take its next step inside a batch and can take
\* the next batch when it is back at the receive.
RescanNeverBlocksDispatch ==
    nspawn > 0 =>
        /\ spc \in {"spawn", "query", "run"} => ENABLED DispatchStep
        /\ (spc = "recv" /\ bpc = "send") => ENABLED BatchSend

\* C17: when fsnotify.NewWatcher fails, Start writes the error to p.Werr and
\* returns: batchRun is not started, nothing is subscribed, no batch is ever
\* received or dispatched, and watcher, done and events stay nil, also through
\* later Watch calls. Start has failed exactly when the error was logged.
StartFailureLeavesUnset ==
    /\ spc = "failed" <=> (\E i \in 1..Len(hist.werr) : hist.werr[i] = "NewWatcher error")
    /\ spc = "failed" =>
          /\ watcher = NULL /\ done = NULL /\ events = NULL
          /\ bpc = "none"
          /\ subs = {}
          /\ nspawn = 0 /\ hist.emitted = <<>> /\ hist.runs = <<>>

\* Start failed on a pipeline that watched nothing, and a Watch has stored a
\* path since.
StartFailedThenWatch ==
    /\ spc = "failed"
    /\ hist.werr = <<"is not watching anything", "has no Workflows", "NewWatcher error">>
    /\ Watches # <<>>
    /\ pc[Api] = "idle"

\* C18: watcher, done and events are set exactly while the pipeline is between
\* Start and Stop: nil in a configured pipeline, set while it runs, and nil
\* again once Stop has returned.
LiveHandlesIffRunning ==
    /\ spc = "configured" => (watcher = NULL /\ done = NULL /\ events = NULL)
    /\ (spc \in {"subscribe", "recv", "spawn", "query", "run"} /\ stpc = "idle")
          => (watcher # NULL /\ done # NULL /\ events # NULL)
    /\ stpc = "returned" => (watcher = NULL /\ done = NULL /\ events = NULL)

\* C19: a Stop called on a running pipeline eventually has returned, with
\* batchRun ended and the watcher closed, wherever batchRun and the dispatch
\* loop were when it was called.
StopEventuallyReturns ==
    (stpc = "send") ~> (stpc = "returned" /\ bpc = "exited" /\ watcher = "closed")

\* Stop was called while batchRun was blocked handing a batch to a dispatch
\* loop that was inside a Run; it has returned, batchRun has ended and the
\* watcher is closed.
StoppedBehindRun ==
    /\ hist.stopBehindRun
    /\ stpc = "returned"
    /\ bpc = "exited"
    /\ watcher = "closed"

\* Whether the line after the header in the sink is the ok line.
OkWritten == Len(task.Tout) >= 2 /\ task.Tout[2] = OkLine

\* C20: from the start of the work on, Target is Src, and the command starts
\* on an empty buffer. When Run has returned, ok was written exactly when the
\* error is nil; the error is nil exactly when the command succeeded and, for
\* the lint task, printed nothing; and the sink holds the header, the ok line
\* if any, and all the command printed, on every exit path, with nothing of an
\* earlier task's buffer.
TaskOutcomeContract ==
    /\ task.pc \in {"exec", "ran", "deferred", "returned"} => task.Target = task.Src
    /\ task.pc = "exec" => task.Buf = <<>>
    /\ task.pc = "returned" =>
          /\ OkWritten <=> task.err = NULL
          /\ task.err = NULL <=>
                (~task.cmdErr /\ (task.kind = "lint" => task.out = <<>>))
          /\ task.Tout = <<task.Tout[1]>>
                             \o (IF task.err = NULL THEN <<OkLine>> ELSE <<>>)
                             \o task.out
          /\ task.Buf = <<>>

\* The lint task returned on a TaskInfo with a stale buffer and another
\* Target: golint succeeded and printed two lines, Run returned FAIL.
LintFailedOnOutput ==
    /\ task.pc = "returned"
    /\ task.kind = "lint"
    /\ task.buf0 = <<StaleLine>>
    /\ ~task.cmdErr
    /\ Len(task.out) = 2
    /\ task.err = "FAIL"
    /\ task.Target = FileA

====
